---- MODULE Spec2Model ----
(***************************************************************************)
(* Model of the housing-price harvesting pipeline:                         *)
(*   scripts/scraper/rumah123_scraper.py   (Rumah123Scraper, the crawler)  *)
(*   scripts/api/fetch_facilities.py       (OSMFacilitiesFetcher)          *)
(*   processing/jobs/data_cleaning.py      (DataCleaner)                   *)
(*   airflow/dags/housing_data_pipeline.py (the DAG that sequences them)   *)
(*                                                                         *)
(* The durable state is the MongoDB database "rumah123": the collections   *)
(* scraping_progress, raw_listings, facilities, cleaned_listings and       *)
(* cleaned_facilities.  Every storage or network call either succeeds or   *)
(* raises; the number of injected failures is bounded by MaxFaults.        *)
(***************************************************************************)
EXTENDS Integers, Sequences, FiniteSets, TLC

\* ------------------------------------------------------------------ bounds
\* How many of the scraper's provinces the model keeps (the code lists 34).
NumProvinces == 2
\* The pipeline is followed while current_page <= MaxPage.
MaxPage == 2
\* Storage, network and page-format failures injected over a behaviour.
MaxFaults == 1
\* Longest string handed to the coercion functions (besides the samples).
MaxStrLen == 3

\* -------------------------------------------------------- program constants
\* get_facilities_count(kecamatan, max_retries = 3)
max_retries == 3

\* self.provinces, in the order of the list (and so of progress["provinces"])
AllProvinces ==
  <<"dki-jakarta", "jawa-barat", "banten", "jawa-timur", "jawa-tengah">>

ProvinceOrder == SubSeq(AllProvinces, 1, NumProvinces)

Provinces == {ProvinceOrder[i] : i \in 1..NumProvinces}

\* The progress document {_id: "current_progress", current_page, provinces};
\* exists = FALSE stands for find_one returning None.
NoProgress ==
  [exists |-> FALSE, current_page |-> 0, provinces |-> [x \in Provinces |-> 0]]

\* The document load_progress creates on the first run.
DefaultProgress ==
  [exists |-> TRUE, current_page |-> 1, provinces |-> [x \in Provinces |-> 1]]

\* ------------------------------------------------------------- remote site
\* Names of the listings the site shows, and the index cards of one province.
\* A card list may show a name twice; two provinces may show the same name.
CardLists == {<< >>, <<"A", "B">>, <<"A", "A">>}

\* The card title of listing `name` on index page `page`.
Title(name, page) == <<name, page>>

\* The kecamatan the detail page of a listing gives (first part of the
\* location text).
KecamatanOf(name) == IF name = "A" THEN "Kebayoran" ELSE "Cibiru"

Kecamatans == {"Kebayoran", "Cibiru"}

VARIABLES
  \* --- durable state (MongoDB)
  progress,            \* scraping_progress, the document current_progress
  raw_listings,        \* raw_listings, in insertion order
  facilities,          \* facilities: kecamatan -> record (exists or not)
  cleaned_listings,    \* cleaned_listings, in insertion order
  cleaned_facilities,  \* cleaned_facilities, in insertion order
  \* --- environment
  site,                \* the remote site: province -> card names
  faults,              \* failures injected so far
  \* --- the DAG and the running script
  pc,                  \* which script runs next / is running
  c_progress,          \* crawler: the progress document loaded at the start
  c_existing,          \* crawler: existing_titles
  c_todo,              \* crawler: provinces still to iterate
  c_raw0,              \* crawler: number of raw listings when the run began
  visit,               \* crawler: what the last iteration of the loop did
  e_kecs,              \* fetcher: kecamatans of the current page
  e_todo,              \* fetcher: kecamatans still to iterate
  api_requests,        \* fetcher: requests sent in this run, per kecamatan
  \* --- history
  crawled,             \* <<province, page>> whose index page was fetched
  last,                \* the script that ended last and how it ended
  pre,                 \* the durable state when that script began
  \* --- the coercion functions applied to one value
  cv_in, cv_mode, cv_out,
  \* --- one run of the fetcher, request by request
  call,                \* get_facilities_count: its argument and locals
  clock,               \* seconds slept around the requests of the run
  handled              \* how the run dealt with each kecamatan

dbVars == <<progress, raw_listings, facilities, cleaned_listings, cleaned_facilities>>

crawlerVars == <<c_progress, c_existing, c_todo, c_raw0, visit>>

enrichVars == <<e_kecs, e_todo, api_requests>>

coerceVars == <<cv_in, cv_mode, cv_out>>

fetchVars == <<call, clock, handled>>

vars ==
  <<progress, raw_listings, facilities, cleaned_listings, cleaned_facilities,
    site, faults, pc, c_progress, c_existing, c_todo, c_raw0, visit,
    e_kecs, e_todo, api_requests, crawled, last, pre, cv_in, cv_mode, cv_out,
    call, clock, handled>>

\* ------------------------------------------------------------------------
\* Values and the coercion functions of DataCleaner (data_cleaning.py 47-76)
\* ------------------------------------------------------------------------
\* A cell value: None, float NaN, float inf, an int, a float (sign, integer
\* part, fraction digits) or a str (a sequence of characters).
Val(kind, neg, num, frac, chars) ==
  [kind |-> kind, neg |-> neg, num |-> num, frac |-> frac, chars |-> chars]

None == Val("null", FALSE, 0, << >>, << >>)

NaN == Val("nan", FALSE, 0, << >>, << >>)

Inf == Val("inf", FALSE, 0, << >>, << >>)

IntVal(n) == Val("int", n < 0, IF n < 0 THEN -n ELSE n, << >>, << >>)

FloatVal(neg, ip, frac) == Val("float", neg, ip, frac, << >>)

StrVal(s) == Val("str", FALSE, 0, << >>, s)

\* The integer a Python int value stands for.
IntOf(v) == IF v.neg THEN -v.num ELSE v.num

Digits == <<"0", "1", "2", "3", "4", "5", "6", "7", "8", "9">>

IsDigit(c) == \E i \in 1..10 : Digits[i] = c

DigitVal(c) == (CHOOSE i \in 1..10 : Digits[i] = c) - 1

AllDigits(s) == \A i \in 1..Len(s) : IsDigit(s[i])

RECURSIVE DigitsValue(_)
DigitsValue(s) ==
  IF s = << >> THEN 0
  ELSE 10 * DigitsValue(SubSeq(s, 1, Len(s) - 1)) + DigitVal(s[Len(s)])

\* str(n) of a natural number.
RECURSIVE NatToStr(_)
NatToStr(n) ==
  IF n < 10 THEN <<Digits[n + 1]>>
  ELSE Append(NatToStr(n \div 10), Digits[(n % 10) + 1])

\* str.strip(): leading and trailing whitespace removed.
RECURSIVE LStrip(_)
LStrip(s) == IF s # << >> /\ s[1] = " " THEN LStrip(Tail(s)) ELSE s

RECURSIVE RStrip(_)
RStrip(s) ==
  IF s # << >> /\ s[Len(s)] = " " THEN RStrip(SubSeq(s, 1, Len(s) - 1)) ELSE s

Strip(s) == RStrip(LStrip(s))

\* str.replace(',', '')
RemoveCommas(s) == SelectSeq(s, LAMBDA c : c # ",")

\* str(value)
ToStr(v) ==
  CASE v.kind = "str" -> v.chars
    [] v.kind = "int" -> (IF v.neg THEN <<"-">> ELSE << >>) \o NatToStr(v.num)
    [] v.kind = "float" ->
         (IF v.neg THEN <<"-">> ELSE << >>) \o NatToStr(v.num) \o <<".">>
           \o (IF v.frac = << >> THEN <<"0">> ELSE v.frac)
    [] v.kind = "nan" -> <<"n", "a", "n">>
    [] v.kind = "inf" -> <<"i", "n", "f">>
    [] OTHER -> <<"N", "o", "n", "e">>

Sign(s) == s # << >> /\ s[1] \in {"-", "+"}

Unsigned(s) == IF Sign(s) THEN Tail(s) ELSE s

DotAt(s) == {i \in 1..Len(s) : s[i] = "."}

\* Trailing zeros of a fraction carry no value.
RECURSIVE TrimZeros(_)
TrimZeros(s) ==
  IF s # << >> /\ s[Len(s)] = "0" THEN TrimZeros(SubSeq(s, 1, Len(s) - 1)) ELSE s

Raise(exc) == [raised |-> exc, value |-> None]

Return(v) == [raised |-> "none", value |-> v]

\* float(s) of a str: optional sign, digits with at most one point and at
\* least one digit; "nan" and "inf" are read as such.  (Exponents and digit
\* underscores lie outside the alphabet the inputs are drawn from.)
ParseFloat(s) ==
  LET t == Strip(s)
      neg == t # << >> /\ t[1] = "-"
      b == Unsigned(t)
      dots == DotAt(b)
  IN  IF b = <<"n", "a", "n">> THEN Return(NaN)
      ELSE IF b = <<"i", "n", "f">> THEN Return(Inf)
      ELSE IF dots = {} THEN
             IF b # << >> /\ AllDigits(b)
               THEN Return(FloatVal(neg, DigitsValue(b), << >>))
               ELSE Raise("ValueError")
      ELSE IF Cardinality(dots) = 1 THEN
             LET d == CHOOSE i \in dots : TRUE
                 ip == SubSeq(b, 1, d - 1)
                 fr == SubSeq(b, d + 1, Len(b))
             IN  IF AllDigits(ip) /\ AllDigits(fr) /\ Len(ip) + Len(fr) >= 1
                   THEN Return(FloatVal(neg, DigitsValue(ip), TrimZeros(fr)))
                   ELSE Raise("ValueError")
      ELSE Raise("ValueError")

\* int(x): of a float, truncation towards zero; of a str, optional sign and
\* digits only; of None, TypeError; of NaN, ValueError; of inf, OverflowError.
ToInt(v) ==
  CASE v.kind = "int" -> Return(v)
    [] v.kind = "float" -> Return(IntVal(IF v.neg THEN -v.num ELSE v.num))
    [] v.kind = "nan" -> Raise("ValueError")
    [] v.kind = "inf" -> Raise("OverflowError")
    [] v.kind = "str" ->
         LET t == Strip(v.chars)
             b == Unsigned(t)
         IN  IF b # << >> /\ AllDigits(b)
               THEN Return(IntVal(IF t[1] = "-" THEN -DigitsValue(b) ELSE DigitsValue(b)))
               ELSE Raise("ValueError")
    [] OTHER -> Raise("TypeError")

\* pd.isna(x) of a scalar.
IsNa(v) == v.kind \in {"null", "nan"}

\* The try block of clean_price (lines 50-52).
clean_price_try(price) ==
  IF IsNa(price) \/ price.kind = "null" THEN Return(None) ELSE ToInt(price)

\* clean_price (lines 47-54): the bare except turns every exception into None.
clean_price(price) ==
  LET r == clean_price_try(price)
  IN  IF r.raised # "none" THEN Return(None) ELSE r

\* The try block of clean_numeric (lines 59-65).
clean_numeric_try(value, convert_to) ==
  IF IsNa(value) \/ value.kind = "null" \/ value = StrVal(<< >>) THEN Return(None)
  ELSE LET f == ParseFloat(RemoveCommas(ToStr(value)))
       IN  IF convert_to = "int"
             THEN (IF f.raised # "none" THEN f ELSE ToInt(f.value))
           ELSE IF convert_to = "float" THEN f
           ELSE Return(value)

\* clean_numeric whose handler names ValueError: other exceptions leave it.
clean_numeric_ValueErrorOnly(value, convert_to) ==
  LET r == clean_numeric_try(value, convert_to)
  IN  IF r.raised = "ValueError" THEN Return(None) ELSE r

\* clean_numeric (lines 56-67): the bare except turns every exception into
\* None.
clean_numeric(value, convert_to) ==
  LET r == clean_numeric_try(value, convert_to)
  IN  IF r.raised # "none" THEN Return(None) ELSE r

\* clean_string (lines 69-76).
clean_string(value) ==
  IF IsNa(value) \/ value.kind = "null" \/ value = StrVal(<< >>) THEN Return(None)
  ELSE Return(StrVal(Strip(ToStr(value))))

\* ---- the inputs the coercion functions are applied to
Alphabet == {"0", "1", "2", ",", ".", "-", " ", "a"}

RECURSIVE StringsUpTo(_)
StringsUpTo(n) ==
  IF n = 0 THEN {<< >>}
  ELSE LET shorter == StringsUpTo(n - 1)
       IN  shorter \cup {Append(s, c) : s \in shorter, c \in Alphabet}

Sample_1_200_000 == <<"1", ",", "2", "0", "0", ",", "0", "0", "0">>

Sample_abc == <<"a", "b", "c">>

CoerceInputs ==
  {None, NaN, Inf, IntVal(0), IntVal(12), IntVal(-3),
   FloatVal(FALSE, 1, <<"5">>), FloatVal(TRUE, 2, <<"5">>),
   StrVal(Sample_1_200_000), StrVal(Sample_abc),
   StrVal(<<"i", "n", "f">>), StrVal(<<"n", "a", "n">>)}
  \cup {StrVal(s) : s \in StringsUpTo(MaxStrLen)}

\* The cleaner applies one of the functions to a cell (lines 115-124, 149).
Coerce(v, mode) ==
  CASE mode = "price" -> clean_price(v)
    [] mode = "int" -> clean_numeric(v, "int")
    [] OTHER -> clean_numeric(v, "float")

Pending == [raised |-> "pending", value |-> None]

CoerceIdle == cv_in = None /\ cv_mode = "idle" /\ cv_out = Pending

CoerceInit ==
  /\ cv_in \in CoerceInputs
  /\ cv_mode \in {"price", "int", "float"}
  /\ cv_out = Pending

ApplyCoercion ==
  /\ cv_mode \in {"price", "int", "float"}
  /\ cv_out = Pending
  /\ cv_out' = Coerce(cv_in, cv_mode)
  /\ UNCHANGED <<cv_in, cv_mode>>

\* ------------------------------------------------------------------------
\* Rumah123Scraper (rumah123_scraper.py)
\* ------------------------------------------------------------------------
\* The text of the price element on the detail page of a listing; listing B
\* shows none (get_value returns None).
PriceTextOf(name) ==
  IF name = "A" THEN StrVal(<<"R", "p", " ", "1", "2">>) ELSE None

\* Rumah123Scraper.clean_price (lines 61-70): the digits of the text, as an
\* int; None when the text is absent or holds no digit.
scraper_clean_price(price_text) ==
  IF price_text.kind = "null" \/ price_text.chars = << >> THEN None
  ELSE LET clean_text == SelectSeq(price_text.chars, IsDigit)
       IN  IF clean_text = << >> THEN None ELSE IntVal(DigitsValue(clean_text))

\* The columns clean_rumah123_data requires (lines 81-91).
ListingColumns ==
  {"judul_iklan", "harga", "kecamatan", "kabupaten_kota", "provinsi",
   "terakhir_diperbarui", "agen", "link_rumah123", "kamar_tidur",
   "kamar_mandi", "luas_tanah", "luas_bangunan", "carport",
   "sertifikat", "daya_listrik", "kamar_tidur_pembantu",
   "kamar_mandi_pembantu", "dapur", "ruang_makan", "ruang_tamu",
   "kondisi_perabotan", "material_bangunan", "material_lantai",
   "garasi", "jumlah_lantai", "konsep_dan_gaya_rumah", "pemandangan",
   "terjangkau_internet", "lebar_jalan", "tahun_dibangun",
   "tahun_direnovasi", "sumber_air", "hook", "kondisi_properti"}

\* A raw_listings document.  _id is the key MongoDB gives the document on
\* insertion; missing is the set of required columns the document lacks
\* (none for a document the scraper built: lines 155-191 set every key).
RawDoc(id, title, name, province, page) ==
  [id |-> id, judul_iklan |-> title, harga |-> scraper_clean_price(PriceTextOf(name)),
   kecamatan |-> KecamatanOf(name), province |-> province, page |-> page,
   missing |-> {}]

\* fetch_existing_titles (lines 72-79): distinct("judul_iklan"), or the empty
\* set when the query raises.
fetch_existing_titles(outcome) ==
  IF outcome = "error" THEN {}
  ELSE {raw_listings[i].judul_iklan : i \in 1..Len(raw_listings)}

\* The index page of a province: one card per name, titled per page.
IndexPage(province, page) ==
  [i \in 1..Len(site[province]) |-> Title(site[province][i], page)]

\* scrape_search_page (lines 81-119): the cards whose title is not in
\* existing_titles, in page order; [] on a request error.
scrape_search_page(province, page, existing_titles, outcome) ==
  IF outcome = "error" THEN << >>
  ELSE SelectSeq(IndexPage(province, page), LAMBDA t : t \notin existing_titles)

\* Outcomes of one detail fetch: the record (lines 155-191), {} on a
\* RequestException (lines 192-194), or an exception that is no
\* RequestException and leaves scrape_house_details (line 149: the update
\* text has no second token).
DetailOutcomes == {"ok", "neterr", "raise"}

\* Positions of `outs` up to and including the first that raises.
Attempted(outs, n) ==
  {i \in 1..n : \A j \in 1..(i - 1) : outs[j] # "raise"}

Crashed(outs, n) == \E i \in 1..n : outs[i] = "raise"

\* house_details that ends at the first detail fetch that gave no record.
HouseDetails_StopAtError(houses, outs, province, page, nextId) ==
  LET k == Cardinality({i \in 1..Len(houses) : \A j \in 1..i : outs[j] = "ok"})
  IN  [i \in 1..k |-> RawDoc(nextId + i - 1, houses[i], houses[i][1], province, page)]

\* house_details of run (lines 271-275): the non-empty records, in order.
RECURSIVE HouseDetails(_, _, _, _, _)
HouseDetails(houses, outs, province, page, nextId) ==
  IF houses = << >> THEN << >>
  ELSE LET title == Head(houses)
           rest(nid) == HouseDetails(Tail(houses), Tail(outs), province, page, nid)
       IN  IF Head(outs) = "ok"
             THEN <<RawDoc(nextId, title, title[1], province, page)>> \o rest(nextId + 1)
             ELSE rest(nextId)

\* store_to_mongodb that reports success whatever happened.
store_to_mongodb_AlwaysTrue(data, outcome) == TRUE

\* store_to_mongodb (lines 196-217): False for an empty list and when
\* insert_many raises, else True; the insertion itself is in CrawlerProvince.
store_to_mongodb(data, outcome) == data # << >> /\ outcome = "ok"

\* update_progress that writes the page after the one crawled.
update_progress_NextPage(prog, province, page) ==
  IF prog.exists
    THEN [prog EXCEPT !.provinces[province] = page + 1, !.current_page = page + 1]
    ELSE prog

\* update_progress that writes the first page.
update_progress_Reset(prog, province, page) ==
  IF prog.exists
    THEN [prog EXCEPT !.provinces[province] = 1, !.current_page = 1]
    ELSE prog

\* update_progress (lines 236-249): $set of provinces.<province> and of
\* current_page on the document current_progress (no upsert).
update_progress(prog, province, page) ==
  IF prog.exists
    THEN [prog EXCEPT !.provinces[province] = page, !.current_page = page]
    ELSE prog

Ended(run, ok, started) == [run |-> run, ok |-> ok, started |-> started]

NoSnapshot ==
  [progress |-> NoProgress, cleaned_listings |-> << >>, cleaned_facilities |-> << >>]

\* visit: the province and page of an iteration of run's loop, whether the
\* index page was obtained and the titles of its cards, the existing titles
\* the run holds, the outcomes of the detail fetches made, the titles they
\* were made for and the titles of the records inserted, the outcome of
\* insert_many ("none": not called) and of update_progress ("none": not
\* called).
NoVisit ==
  [province |-> "none", page |-> 0, index |-> "none", cards |-> << >>,
   known |-> {}, outs |-> << >>, fetched |-> << >>, stored |-> << >>,
   store |-> "none", progress_write |-> "none"]

CrawlerIdle ==
  /\ c_progress = NoProgress
  /\ c_existing = {}
  /\ c_todo = << >>
  /\ visit = NoVisit

\* run, lines 253-255: load_progress (created when absent), existing titles.
\* A storage error in load_progress is re-raised and ends the script.
CrawlerStart ==
  /\ pc = "crawl_start"
  /\ progress.current_page <= MaxPage
  /\ \E load \in {"ok", "error"}, titles \in {"ok", "error"} :
       /\ load = "error" => titles = "ok"
       /\ faults + (IF load = "error" THEN 1 ELSE 0)
                 + (IF titles = "error" THEN 1 ELSE 0) <= MaxFaults
       /\ faults' = faults + (IF load = "error" THEN 1 ELSE 0)
                           + (IF titles = "error" THEN 1 ELSE 0)
       /\ IF load = "error"
            THEN /\ pc' = "enrich_start"
                 /\ last' = Ended("crawl", FALSE, FALSE)
                 /\ UNCHANGED <<progress, crawlerVars>>
            ELSE /\ progress' = IF progress.exists THEN progress ELSE DefaultProgress
                 /\ c_progress' = progress'
                 /\ c_existing' = fetch_existing_titles(titles)
                 /\ c_todo' = ProvinceOrder
                 /\ c_raw0' = Len(raw_listings)
                 /\ visit' = NoVisit
                 /\ pc' = "crawl_loop"
                 /\ UNCHANGED last
  /\ pre' = NoSnapshot
  /\ UNCHANGED <<raw_listings, facilities, cleaned_listings, cleaned_facilities,
                 site, enrichVars, crawled, coerceVars, fetchVars>>

\* run, lines 257-281: one iteration of the loop over progress["provinces"].
CrawlerProvince ==
  /\ pc = "crawl_loop"
  /\ c_todo # << >>
  /\ LET province == Head(c_todo)
         page == c_progress.provinces[province]
     IN  IF page # c_progress.current_page
           THEN /\ c_todo' = Tail(c_todo)
                /\ visit' = NoVisit
                /\ UNCHANGED <<progress, raw_listings, faults, pc, c_progress,
                               c_existing, c_raw0, crawled, last>>
           ELSE \E idx \in {"ok", "error"} :
                  LET houses == scrape_search_page(province, page, c_existing, idx)
                      n == Len(houses)
                  IN  \E outs \in [1..n -> DetailOutcomes],
                         store \in {"ok", "error"}, upd \in {"ok", "error"} :
                        LET tried == Attempted(outs, n)
                            crash == Crashed(outs, n)
                            details == HouseDetails(houses, outs, province, page,
                                                    Len(raw_listings) + 1)
                            stored == ~crash /\ store_to_mongodb(details, store)
                            used == (IF idx = "error" THEN 1 ELSE 0)
                                    + Cardinality({i \in tried : outs[i] # "ok"})
                                    + (IF store = "error" THEN 1 ELSE 0)
                                    + (IF upd = "error" THEN 1 ELSE 0)
                        IN  /\ \A i \in (1..n) \ tried : outs[i] = "ok"
                            /\ store = "error" => (~crash /\ details # << >>)
                            /\ upd = "error" => stored
                            /\ faults + used <= MaxFaults
                            /\ faults' = faults + used
                            /\ visit' =
                                 [province |-> province, page |-> page, index |-> idx,
                                  cards |-> IF idx = "ok" THEN IndexPage(province, page)
                                            ELSE << >>,
                                  known |-> c_existing,
                                  outs |-> SubSeq(outs, 1, Cardinality(tried)),
                                  fetched |-> SubSeq(houses, 1, Cardinality(tried)),
                                  stored |-> IF stored
                                               THEN [i \in 1..Len(details) |->
                                                       details[i].judul_iklan]
                                               ELSE << >>,
                                  store |-> IF ~crash /\ details # << >> THEN store
                                            ELSE "none",
                                  progress_write |-> IF stored THEN upd ELSE "none"]
                            /\ crawled' = IF idx = "ok"
                                            THEN crawled \cup {<<province, page>>}
                                            ELSE crawled
                            /\ raw_listings' = IF stored THEN raw_listings \o details
                                                ELSE raw_listings
                            /\ progress' = IF stored /\ upd = "ok"
                                             THEN update_progress(progress, province, page)
                                             ELSE progress
                            /\ IF crash
                                 THEN /\ pc' = "enrich_start"
                                      /\ last' = Ended("crawl", FALSE, TRUE)
                                      /\ c_progress' = NoProgress
                                      /\ c_existing' = {}
                                      /\ c_todo' = << >>
                                      /\ c_raw0' = Len(raw_listings')
                                 ELSE /\ c_todo' = Tail(c_todo)
                                      /\ UNCHANGED <<pc, last, c_progress, c_existing, c_raw0>>
  /\ UNCHANGED <<facilities, cleaned_listings, cleaned_facilities, site,
                 enrichVars, pre, coerceVars, fetchVars>>

\* run returns after the last province; the DAG starts the next task.
CrawlerEnd ==
  /\ pc = "crawl_loop"
  /\ c_todo = << >>
  /\ pc' = "enrich_start"
  /\ last' = Ended("crawl", TRUE, TRUE)
  /\ c_progress' = NoProgress
  /\ c_existing' = {}
  /\ c_raw0' = Len(raw_listings)
  /\ visit' = NoVisit
  /\ UNCHANGED <<dbVars, site, faults, c_todo, enrichVars, crawled, pre, coerceVars, fetchVars>>

\* ------------------------------------------------------------------------
\* OSMFacilitiesFetcher (fetch_facilities.py)
\* ------------------------------------------------------------------------
\* facility_queries (lines 41-61): the category of each filter expression,
\* in the order the loops of get_facilities_count visit them.
FilterCategory == <<1, 2, 3, 3, 4, 4, 4, 5, 5>>

Categories == 1..5

NumFilters == Len(FilterCategory)

\* The columns clean_osm_facilities_data requires (lines 135-139).
FacilityColumns ==
  {"kecamatan", "jumlah_fasilitas_pendidikan", "jumlah_fasilitas_kesehatan",
   "jumlah_fasilitas_perbelanjaan", "jumlah_fasilitas_transportasi",
   "jumlah_fasilitas_rekreasi"}

\* Responses of the API to one request: 200 with 0 or 1 elements, 429, any
\* other status, or an exception of session.post.
Responses == {"ok0", "ok1", "429", "500", "exc"}

IsOk(resp) == resp \in {"ok0", "ok1"}

Elements(resp) == IF resp = "ok1" THEN 1 ELSE 0

\* The most requests one call of get_facilities_count can send.
ScriptLen == NumFilters + max_retries - 1

\* get_facilities_count (lines 87-147) against the responses `script`:
\* f is the filter expression being queried, pos the next response,
\* retry_count and counts (results / total_count) the function's locals.
\* retry_count is set once, before the loops (line 93).
RECURSIVE FetchFrom(_, _, _, _, _)
FetchFrom(script, f, retry_count, pos, counts) ==
  IF f > NumFilters THEN [ok |-> TRUE, requests |-> pos - 1, counts |-> counts]
  ELSE IF retry_count >= max_retries
         THEN [ok |-> FALSE, requests |-> pos - 1, counts |-> counts]
  ELSE IF IsOk(script[pos])
         THEN FetchFrom(script, f + 1, retry_count, pos + 1,
                        [counts EXCEPT ![FilterCategory[f]] = @ + Elements(script[pos])])
  ELSE FetchFrom(script, f, retry_count + 1, pos + 1, counts)

get_facilities_count(script) ==
  FetchFrom(script, 1, 0, 1, [c \in Categories |-> 0])

\* A facilities document; _id is given on the upsert's insertion and is one
\* per kecamatan, so the kecamatan stands for it.
FacilityDoc(kecamatan, counts) ==
  [id |-> kecamatan, kecamatan |-> kecamatan, counts |-> counts, missing |-> {}]

\* facility_exists that finds nothing.
facility_exists_Never(kecamatan) == FALSE

\* facility_exists (lines 201-203)
facility_exists(kecamatan) ==
  \E i \in 1..Len(facilities) : facilities[i].kecamatan = kecamatan

\* save_facilities_to_mongodb (lines 179-199): update_one with upsert.
Upsert(coll, doc) ==
  IF \E i \in 1..Len(coll) : coll[i].kecamatan = doc.kecamatan
    THEN [i \in 1..Len(coll) |->
            IF coll[i].kecamatan = doc.kecamatan THEN doc ELSE coll[i]]
    ELSE Append(coll, doc)

\* get_current_kecamatans (lines 150-177): the kecamatans of the raw listings
\* of the current page; the empty set when the aggregation raises.
get_current_kecamatans(prog, outcome) ==
  IF outcome = "error" THEN {}
  ELSE {raw_listings[i].kecamatan :
          i \in {j \in 1..Len(raw_listings) : raw_listings[j].page = prog.current_page}}

\* The responses the API gives to one kecamatan's queries: all 200, or a
\* number of failures first.
Script(nfail, bad, good) == [i \in 1..ScriptLen |-> IF i <= nfail THEN bad ELSE good]

MainScripts ==
  {Script(0, "500", "ok0"), Script(0, "500", "ok1"), Script(1, "429", "ok1"),
   Script(max_retries, "500", "ok1")}

ScriptFaults(script) == IF \E i \in 1..ScriptLen : ~IsOk(script[i]) THEN 1 ELSE 0

NoRequests == [k \in Kecamatans |-> 0]

\* run, lines 207-215.  An exception of find_one is caught by run's handler
\* (line 231) and ends the run; so does a missing progress document.
EnrichStart ==
  /\ pc = "enrich_start"
  /\ \E find \in {"ok", "error"}, agg \in {"ok", "error"} :
       LET used == (IF find = "error" THEN 1 ELSE 0) + (IF agg = "error" THEN 1 ELSE 0)
       IN  /\ find = "error" => agg = "ok"
           /\ agg = "error" => progress.exists
           /\ faults + used <= MaxFaults
           /\ faults' = faults + used
           /\ IF find = "error" \/ ~progress.exists
                THEN /\ pc' = "clean"
                     /\ last' = Ended("enrich", FALSE, FALSE)
                     /\ UNCHANGED enrichVars
                ELSE /\ e_kecs' = get_current_kecamatans(progress, agg)
                     /\ e_todo' = e_kecs'
                     /\ api_requests' = NoRequests
                     /\ pc' = "enrich_loop"
                     /\ UNCHANGED last
  /\ visit' = NoVisit
  /\ UNCHANGED <<dbVars, site, c_progress, c_existing, c_todo, c_raw0, crawled, pre,
                 coerceVars, fetchVars>>

\* run, lines 217-229: one iteration of the loop over the kecamatans (a set:
\* any order).
EnrichKecamatan ==
  /\ pc = "enrich_loop"
  /\ \E kecamatan \in e_todo :
       \E exists \in {"ok", "error"} :
         IF exists = "error"
           THEN /\ faults + 1 <= MaxFaults
                /\ faults' = faults + 1
                /\ pc' = "clean"
                /\ last' = Ended("enrich", FALSE, TRUE)
                /\ e_kecs' = {}
                /\ e_todo' = {}
                /\ api_requests' = NoRequests
                /\ UNCHANGED facilities
         ELSE IF facility_exists(kecamatan)
           THEN /\ e_todo' = e_todo \ {kecamatan}
                /\ UNCHANGED <<facilities, api_requests, faults, pc, last, e_kecs>>
         ELSE \E script \in MainScripts, save \in {"ok", "error"} :
                LET got == get_facilities_count(script)
                    used == ScriptFaults(script) + (IF save = "error" THEN 1 ELSE 0)
                IN  /\ save = "error" => got.ok
                    /\ faults + used <= MaxFaults
                    /\ faults' = faults + used
                    /\ api_requests' =
                         [api_requests EXCEPT ![kecamatan] = @ + got.requests]
                    /\ facilities' = IF got.ok /\ save = "ok"
                                       THEN Upsert(facilities, FacilityDoc(kecamatan, got.counts))
                                       ELSE facilities
                    /\ e_todo' = e_todo \ {kecamatan}
                    /\ UNCHANGED <<pc, last, e_kecs>>
  /\ UNCHANGED <<progress, raw_listings, cleaned_listings, cleaned_facilities,
                 site, crawlerVars, crawled, pre, coerceVars, fetchVars>>

EnrichEnd ==
  /\ pc = "enrich_loop"
  /\ e_todo = {}
  /\ pc' = "clean"
  /\ last' = Ended("enrich", TRUE, TRUE)
  /\ e_kecs' = {}
  /\ api_requests' = NoRequests
  /\ UNCHANGED <<dbVars, site, faults, crawlerVars, e_todo, crawled, pre, coerceVars, fetchVars>>

\* ---- the same run, one request at a time, with the seconds it sleeps
\* time.sleep(2) before every request (line 104).
per_call_delay == 2

\* time.sleep(5) after another status or an exception (lines 127, 132).
error_delay == 5

\* The wait when a 429 carries no Retry-After header (line 120).
default_retry_after == 60

\* The largest number of seconds a Retry-After header asks for.
MaxRetryAfter == 3

\* Retry-After of a 429: absent, delay-seconds, or an HTTP-date.
NoHeader == [form |-> "absent", seconds |-> 0]

RetryAfterHeaders ==
  {NoHeader, [form |-> "date", seconds |-> 0]}
  \cup {[form |-> "seconds", seconds |-> n] : n \in 0..MaxRetryAfter}

\* What session.post gives: a status (200, here with no elements; 429 with
\* its Retry-After header; another status) or an exception.
ApiResponses ==
  {[kind |-> r, header |-> NoHeader] : r \in {"ok0", "500", "exc"}}
  \cup {[kind |-> "429", header |-> h] : h \in RetryAfterHeaders}

\* The seconds the server asks the client to stay away after a 429.
RateLimitWindow(header) ==
  IF header.form = "absent" THEN default_retry_after ELSE header.seconds

\* wait_time that does not wait.
wait_time_Zero(header) == 0

\* wait_time (line 120): int(response.headers.get('Retry-After', 60)).
wait_time(header) ==
  IF header.form = "absent" THEN default_retry_after ELSE header.seconds

\* Beyond this many seconds the time since the previous request is not told
\* apart.
Far == default_retry_after + error_delay + per_call_delay

\* clock: since, the seconds slept since the previous request (since the
\* start of the run before the first); window, the seconds the previous
\* response asked to stay away; and, taken when a request is sent, gap (the
\* value of since) and prev_window (the value of window).
NoClock ==
  [since |-> 0, window |-> 0, sent |-> FALSE, gap |-> 0, prev_window |-> 0]

\* time.sleep that returns at once.
Slept_Not(c, seconds) == c

\* time.sleep(seconds)
Slept(c, seconds) ==
  [c EXCEPT !.since = IF @ + seconds > Far THEN Far ELSE @ + seconds]

\* session.post is called (line 106); the response asks for `window` seconds.
Requested(c, window) ==
  [since |-> 0, window |-> window, sent |-> TRUE, gap |-> c.since,
   prev_window |-> c.window]

\* call: the argument and locals of get_facilities_count and, for the
\* record, oks (the filter expressions answered with 200), fails (the failed
\* attempts of the filter expression being queried) and most (the most
\* failed attempts any one filter expression had).
NoCall ==
  [kecamatan |-> "none", filter |-> 0, retry_count |-> 0,
   counts |-> [c \in Categories |-> 0], oks |-> 0, fails |-> 0, most |-> 0]

\* get_facilities_count is entered (lines 92-93).
NewCall(kecamatan) ==
  [NoCall EXCEPT !.kecamatan = kecamatan, !.filter = 1]

NotHandled ==
  [k \in Kecamatans |-> [result |-> "none", oks |-> 0, most |-> 0]]

Result(result) == [result |-> result, oks |-> call.oks, most |-> call.most]

FetchIdle == call = NoCall /\ clock = NoClock /\ handled = NotHandled

\* The test after the while loop that never holds.
Exhausted_Never(retry_count) == FALSE

\* The test after the while loop (line 134).
Exhausted(retry_count) == retry_count >= max_retries

\* run, lines 217-224: the next kecamatan of the loop; facility_exists may
\* raise, which run's handler (line 231) catches, ending the run.
FetchNext ==
  /\ pc = "fetch_next"
  /\ \E kecamatan \in e_todo : \E exists \in {"ok", "error"} :
       IF exists = "error"
         THEN /\ faults + 1 <= MaxFaults
              /\ faults' = faults + 1
              /\ pc' = "fetch_done"
              /\ last' = Ended("enrich", FALSE, TRUE)
              /\ e_todo' = {}
              /\ UNCHANGED <<call, handled>>
       ELSE IF facility_exists(kecamatan)
         THEN /\ e_todo' = e_todo \ {kecamatan}
              /\ handled' = [handled EXCEPT ![kecamatan].result = "skipped"]
              /\ UNCHANGED <<faults, pc, last, call>>
       ELSE /\ e_todo' = e_todo \ {kecamatan}
            /\ call' = NewCall(kecamatan)
            /\ pc' = "fetch_loop"
            /\ UNCHANGED <<faults, last, handled>>
  /\ UNCHANGED <<dbVars, site, crawlerVars, e_kecs, api_requests, crawled, pre,
                 coerceVars, clock>>

\* get_facilities_count between two requests: the while test (line 101) and
\* the delay before the request (line 104); when the loop is left, the test
\* of line 134 and the next filter expression; after the last one, the
\* results are returned (lines 140-147) and run saves them (lines 226-229).
FetchLoop ==
  /\ pc = "fetch_loop"
  /\ IF call.filter > NumFilters
       THEN \E save \in {"ok", "error"} :
              /\ save = "error" => faults + 1 <= MaxFaults
              /\ faults' = faults + (IF save = "error" THEN 1 ELSE 0)
              /\ facilities' = IF save = "ok"
                                 THEN Upsert(facilities, FacilityDoc(call.kecamatan, call.counts))
                                 ELSE facilities
              /\ handled' = [handled EXCEPT ![call.kecamatan] =
                               Result(IF save = "ok" THEN "saved" ELSE "unsaved")]
              /\ call' = NoCall
              /\ pc' = "fetch_next"
              /\ UNCHANGED clock
     ELSE IF call.retry_count < max_retries
       THEN /\ clock' = Slept(clock, per_call_delay)
            /\ pc' = "fetch_post"
            /\ UNCHANGED <<facilities, faults, call, handled>>
     ELSE IF Exhausted(call.retry_count)
       THEN /\ handled' = [handled EXCEPT ![call.kecamatan] = Result("failed")]
            /\ call' = NoCall
            /\ pc' = "fetch_next"
            /\ UNCHANGED <<facilities, faults, clock>>
     ELSE /\ call' = [call EXCEPT !.filter = @ + 1, !.fails = 0]
          /\ UNCHANGED <<facilities, faults, clock, handled, pc>>
  /\ UNCHANGED <<progress, raw_listings, cleaned_listings, cleaned_facilities,
                 site, crawlerVars, enrichVars, crawled, last, pre, coerceVars>>

\* A failed attempt that is not counted.
Retried_NotCounted(c) == c

\* retry_count += 1 (lines 123, 126, 131), and the record of the failed
\* attempts of the filter expression.
Retried(c) ==
  [c EXCEPT !.retry_count = @ + 1, !.fails = @ + 1,
            !.most = IF c.fails + 1 > @ THEN c.fails + 1 ELSE @]

\* One request and what follows its response (lines 106-132).  An HTTP-date
\* in Retry-After makes int() raise, which the handler of line 129 takes.
FetchPost ==
  /\ pc = "fetch_post"
  /\ \E resp \in ApiResponses :
       LET f == call.filter
           failed == Retried(call)
       IN  IF IsOk(resp.kind)
             THEN /\ call' = [call EXCEPT !.filter = f + 1, !.oks = @ + 1, !.fails = 0,
                                          !.counts[FilterCategory[f]] = @ + Elements(resp.kind)]
                  /\ clock' = Requested(clock, 0)
           ELSE IF resp.kind = "429" /\ resp.header.form # "date"
             THEN /\ call' = failed
                  /\ clock' = Slept(Requested(clock, RateLimitWindow(resp.header)),
                                    wait_time(resp.header))
           ELSE /\ call' = failed
                /\ clock' = Slept(Requested(clock, 0), error_delay)
  /\ api_requests' = [api_requests EXCEPT ![call.kecamatan] = @ + 1]
  /\ pc' = "fetch_loop"
  /\ UNCHANGED <<dbVars, site, faults, crawlerVars, e_kecs, e_todo, crawled, last,
                 pre, coerceVars, handled>>

\* run returns after the last kecamatan.
FetchEnd ==
  /\ pc = "fetch_next"
  /\ e_todo = {}
  /\ pc' = "fetch_done"
  /\ last' = Ended("enrich", TRUE, TRUE)
  /\ UNCHANGED <<dbVars, site, faults, crawlerVars, enrichVars, crawled, pre,
                 coerceVars, fetchVars>>

\* ------------------------------------------------------------------------
\* DataCleaner (data_cleaning.py)
\* ------------------------------------------------------------------------
\* The columns of pd.DataFrame(docs) are the union of the documents' keys: a
\* required column is missing when every document of the batch lacks it.
MissingColumns(docs, required) ==
  {c \in required : \A i \in 1..Len(docs) : c \in docs[i].missing}

\* clean_rumah123_data without the check of lines 93-95: a missing column is
\* filled with None.
clean_rumah123_data_NoCheck(docs) ==
  [raised |-> "none",
   rows |-> [i \in 1..Len(docs) |->
               [id |-> docs[i].id, judul_iklan |-> docs[i].judul_iklan,
                harga |-> clean_price(docs[i].harga).value,
                kecamatan |-> docs[i].kecamatan,
                province |-> docs[i].province, page |-> docs[i].page]]]

\* clean_rumah123_data (lines 78-130): raises when a required column is
\* missing (lines 93-95), else coerces the cells (lines 115-124).  The
\* kecamatan was stripped by the scraper (line 142), so clean_string leaves
\* it as it is.
clean_rumah123_data(docs) ==
  IF MissingColumns(docs, ListingColumns) # {}
    THEN [raised |-> "ValueError", rows |-> << >>]
    ELSE [raised |-> "none",
          rows |-> [i \in 1..Len(docs) |->
                      [id |-> docs[i].id, judul_iklan |-> docs[i].judul_iklan,
                       harga |-> clean_price(docs[i].harga).value,
                       kecamatan |-> docs[i].kecamatan,
                       province |-> docs[i].province, page |-> docs[i].page]]]

\* clean_osm_facilities_data (lines 132-157).
clean_osm_facilities_data(docs) ==
  IF MissingColumns(docs, FacilityColumns) # {}
    THEN [raised |-> "ValueError", rows |-> << >>]
    ELSE [raised |-> "none",
          rows |-> [i \in 1..Len(docs) |->
                      [id |-> docs[i].id, kecamatan |-> docs[i].kecamatan,
                       counts |-> [c \in Categories |->
                                     IntOf(clean_numeric(IntVal(docs[i].counts[c]), "int").value)]]]]

\* insert_many into a collection that would take a second document of an _id.
InsertMany_NoKey(coll, docs) == [ok |-> TRUE, coll |-> coll \o docs]

\* insert_many (ordered): the documents are inserted in order up to the first
\* whose _id the collection already holds, which raises.  The cleaned
\* documents carry the _id of the raw document they were read from.
RECURSIVE InsertMany(_, _)
InsertMany(coll, docs) ==
  IF docs = << >> THEN [ok |-> TRUE, coll |-> coll]
  ELSE IF \E i \in 1..Len(coll) : coll[i].id = Head(docs).id
         THEN [ok |-> FALSE, coll |-> coll]
  ELSE InsertMany(Append(coll, Head(docs)), Tail(docs))

\* A progress update that moves only the provinces with stored listings of
\* the page.
Advance_StoredOnly(prog) ==
  [prog EXCEPT !.provinces = [x \in Provinces |->
                                IF \E i \in 1..Len(raw_listings) :
                                     /\ raw_listings[i].province = x
                                     /\ raw_listings[i].page = prog.current_page
                                  THEN prog.current_page + 1
                                  ELSE prog.provinces[x]],
               !.current_page = prog.current_page + 1]

\* The progress update of process_current_page (lines 195-198).
Advance(prog) ==
  [prog EXCEPT !.provinces = [x \in Provinces |->
                                IF prog.provinces[x] = prog.current_page
                                  THEN prog.current_page + 1
                                  ELSE prog.provinces[x]],
               !.current_page = prog.current_page + 1]

\* The storage calls of process_current_page, in order; `fail` names the one
\* that raises ("none": none does).
CleanerCalls ==
  {"none", "find_raw", "insert_listings", "find_facilities", "insert_facilities",
   "update_progress"}

Outcome(ok, started, hit, cl, cf, prog) ==
  [ok |-> ok, started |-> started, hit |-> hit, cleaned_listings |-> cl,
   cleaned_facilities |-> cf, progress |-> prog]

\* A handler that also commits the progress update once the page was read.
Failed_Advanced(started, hit, cl, cf) ==
  Outcome(FALSE, started, hit, cl, cf, IF started THEN Advance(progress) ELSE progress)

\* The handler of process_current_page (lines 207-209): return False; the
\* progress document is as it was, the cleaned collections as the calls that
\* succeeded left them.
Failed(started, hit, cl, cf) == Outcome(FALSE, started, hit, cl, cf, progress)

\* process_current_page (lines 159-209) on the progress document `prog`.
\* hit tells whether the call named by `fail` was reached.
process_current_page(prog, fail) ==
  LET current_page == prog.current_page
      raw == SelectSeq(raw_listings, LAMBDA d : d.page = current_page)
      cleaned == clean_rumah123_data(raw)
      ins == InsertMany(cleaned_listings, cleaned.rows)
      unique_kecamatans == {cleaned.rows[i].kecamatan : i \in 1..Len(cleaned.rows)}
      facilities_data == SelectSeq(facilities, LAMBDA d : d.kecamatan \in unique_kecamatans)
      cleaned_fac == clean_osm_facilities_data(facilities_data)
      insf == InsertMany(cleaned_facilities, cleaned_fac.rows)
      cf == IF facilities_data = << >> THEN cleaned_facilities ELSE insf.coll
  IN  IF fail = "find_raw"
        THEN Failed(FALSE, TRUE, cleaned_listings, cleaned_facilities)
      ELSE IF raw = << >> \/ cleaned.raised # "none"
        THEN Failed(raw # << >>, FALSE, cleaned_listings, cleaned_facilities)
      ELSE IF fail = "insert_listings"
        THEN Failed(TRUE, TRUE, cleaned_listings, cleaned_facilities)
      ELSE IF ~ins.ok
        THEN Failed(TRUE, FALSE, ins.coll, cleaned_facilities)
      ELSE IF fail = "find_facilities"
        THEN Failed(TRUE, TRUE, ins.coll, cleaned_facilities)
      ELSE IF facilities_data # << >> /\ cleaned_fac.raised # "none"
        THEN Failed(TRUE, FALSE, ins.coll, cleaned_facilities)
      ELSE IF facilities_data # << >> /\ fail = "insert_facilities"
        THEN Failed(TRUE, TRUE, ins.coll, cleaned_facilities)
      ELSE IF facilities_data # << >> /\ ~insf.ok
        THEN Failed(TRUE, FALSE, ins.coll, insf.coll)
      ELSE IF fail = "update_progress"
        THEN Failed(TRUE, TRUE, ins.coll, cf)
      ELSE Outcome(TRUE, TRUE, FALSE, ins.coll, cf, Advance(prog))

Snapshot ==
  [progress |-> progress, cleaned_listings |-> cleaned_listings,
   cleaned_facilities |-> cleaned_facilities]

\* DataCleaner.run (lines 211-229): load_progress raises when the query fails
\* or no document exists (caught at line 226); else process_current_page.
CleanerRun ==
  /\ pc = "clean"
  /\ pre' = Snapshot
  /\ pc' = "crawl_start"
  /\ \E load \in {"ok", "error"}, fail \in CleanerCalls :
       IF load = "error" \/ ~progress.exists
         THEN /\ fail = "none"
              /\ load = "error" => faults + 1 <= MaxFaults
              /\ faults' = faults + (IF load = "error" THEN 1 ELSE 0)
              /\ last' = Ended("clean", FALSE, FALSE)
              /\ UNCHANGED <<progress, cleaned_listings, cleaned_facilities>>
         ELSE LET out == process_current_page(progress, fail)
              IN  /\ fail # "none" => (out.hit /\ faults + 1 <= MaxFaults)
                  /\ faults' = faults + (IF fail # "none" THEN 1 ELSE 0)
                  /\ last' = Ended("clean", out.ok, out.started)
                  /\ cleaned_listings' = out.cleaned_listings
                  /\ cleaned_facilities' = out.cleaned_facilities
                  /\ progress' = out.progress
  /\ UNCHANGED <<raw_listings, facilities, site, crawlerVars, enrichVars,
                 crawled, coerceVars, fetchVars>>

\* ------------------------------------------------------------------------
\* The pipeline: the DAG runs the three scripts one after the other
\* (housing_data_pipeline.py line 65), run after run.
\* ------------------------------------------------------------------------
Sites == [Provinces -> CardLists]

Init ==
  /\ progress = NoProgress
  /\ raw_listings = << >>
  /\ facilities = << >>
  /\ cleaned_listings = << >>
  /\ cleaned_facilities = << >>
  /\ site \in Sites
  /\ faults = 0
  /\ pc = "crawl_start"
  /\ CrawlerIdle
  /\ c_raw0 = 0
  /\ e_kecs = {}
  /\ e_todo = {}
  /\ api_requests = NoRequests
  /\ crawled = {}
  /\ last = Ended("none", TRUE, FALSE)
  /\ pre = NoSnapshot
  /\ CoerceIdle
  /\ FetchIdle

Next ==
  \/ CrawlerStart
  \/ CrawlerProvince
  \/ CrawlerEnd
  \/ EnrichStart
  \/ EnrichKecamatan
  \/ EnrichEnd
  \/ CleanerRun

Spec == Init /\ [][Next]_vars

\* ------------------------------------------------------------------------
\* The cleaner on batches that may lack a required column
\* ------------------------------------------------------------------------
\* A document lacks no required column or one of them.
MissingChoices(required) == {{}} \cup {{c} : c \in required}

BatchListing(id, name, missing) ==
  [RawDoc(id, Title(name, 1), name, ProvinceOrder[1], 1) EXCEPT !.missing = missing]

BatchFacility(kecamatan, missing) ==
  [FacilityDoc(kecamatan, [c \in Categories |-> 1]) EXCEPT !.missing = missing]

\* One listing, or two of which the second lacks nothing, the column the
\* first lacks, or the price.
ListingBatches ==
  {<<BatchListing(1, "A", m)>> : m \in MissingChoices(ListingColumns)}
  \cup UNION {{<<BatchListing(1, "A", m), BatchListing(2, "B", m2)>> :
                 m2 \in {{}, m, {"harga"}}} : m \in MissingChoices(ListingColumns)}

FacilityBatches ==
  {<< >>}
  \cup {<<BatchFacility("Kebayoran", m)>> : m \in MissingChoices(FacilityColumns)}
  \cup {<<BatchFacility("Kebayoran", m[1]), BatchFacility("Cibiru", m[2])>> :
          m \in MissingChoices(FacilityColumns) \X MissingChoices(FacilityColumns)}

CleanInit ==
  /\ progress = DefaultProgress
  /\ raw_listings \in ListingBatches
  /\ facilities \in FacilityBatches
  /\ cleaned_listings = << >>
  /\ cleaned_facilities = << >>
  /\ site = [x \in Provinces |-> << >>]
  /\ faults = 0
  /\ pc = "clean"
  /\ CrawlerIdle
  /\ c_raw0 = 0
  /\ e_kecs = {}
  /\ e_todo = {}
  /\ api_requests = NoRequests
  /\ crawled = {}
  /\ last = Ended("none", TRUE, FALSE)
  /\ pre = NoSnapshot
  /\ CoerceIdle
  /\ FetchIdle

CleanNext == CleanerRun

SpecClean == CleanInit /\ [][CleanNext]_vars

\* ------------------------------------------------------------------------
\* The coercion functions on one value
\* ------------------------------------------------------------------------
CoerceSpecInit ==
  /\ progress = NoProgress
  /\ raw_listings = << >>
  /\ facilities = << >>
  /\ cleaned_listings = << >>
  /\ cleaned_facilities = << >>
  /\ site = [x \in Provinces |-> << >>]
  /\ faults = 0
  /\ pc = "coerce"
  /\ CrawlerIdle
  /\ c_raw0 = 0
  /\ e_kecs = {}
  /\ e_todo = {}
  /\ api_requests = NoRequests
  /\ crawled = {}
  /\ last = Ended("none", TRUE, FALSE)
  /\ pre = NoSnapshot
  /\ CoerceInit
  /\ FetchIdle

CoerceNext ==
  /\ ApplyCoercion
  /\ UNCHANGED <<dbVars, site, faults, pc, crawlerVars, enrichVars, crawled, last, pre,
                 fetchVars>>

SpecCoerce == CoerceSpecInit /\ [][CoerceNext]_vars

\* ------------------------------------------------------------------------
\* Properties
\* ------------------------------------------------------------------------
\* The cleaner has just ended: the next script has not started.
CleanerEnded == pc = "crawl_start" /\ last.run = "clean"

\* C1: whenever process_current_page fails (no raw listings, a missing
\* column, a storage exception), the progress document is the one the run
\* found: current_page and every province cursor are unchanged.
C1_AllOrNothingCommit ==
  (CleanerEnded /\ ~last.ok) => progress = pre.progress

\* A cleaner run failed after it had written cleaned listings.
C1_Witness ==
  /\ CleanerEnded
  /\ ~last.ok
  /\ last.started
  /\ progress.exists
  /\ cleaned_listings # pre.cleaned_listings

\* C2: over sequential crawler, fetcher and cleaner runs, current_page and
\* every province cursor of the progress document never decrease (and the
\* document, once created, stays).
C2_ProgressMonotone ==
  [][progress.exists =>
       /\ progress'.exists
       /\ progress'.current_page >= progress.current_page
       /\ \A x \in Provinces : progress'.provinces[x] >= progress.provinces[x]]_vars

\* The crawler stored listings of page 2 and wrote the progress document,
\* after a cleaner run had advanced it.
C2_Witness ==
  /\ pc = "crawl_loop"
  /\ progress.current_page = 2
  /\ Len(raw_listings) > c_raw0
  /\ faults = 0

\* C3: if process_current_page fails after it started, cleaned_listings,
\* cleaned_facilities and the progress document all hold their pre-run
\* contents.
C3_FailureLeavesDurableState ==
  (CleanerEnded /\ last.started /\ ~last.ok) =>
    /\ cleaned_listings = pre.cleaned_listings
    /\ cleaned_facilities = pre.cleaned_facilities
    /\ progress = pre.progress

\* C4: a province's cursor is past page p only if that province's index page
\* p was fetched.
C4_CursorOnlyAfterCrawl ==
  progress.exists =>
    \A x \in Provinces : \A p \in 1..MaxPage :
      progress.provinces[x] > p => <<x, p>> \in crawled

\* A facilities document exists for the kecamatan.
HasRecord(kecamatan) ==
  \E i \in 1..Len(facilities) : facilities[i].kecamatan = kecamatan

\* C5: when the cleaner has advanced current_page from p to p+1, every
\* kecamatan of a raw listing stored under page p has a facilities document.
C5_AdvanceOnlyAfterEnrichment ==
  (CleanerEnded /\ last.ok) =>
    \A i \in 1..Len(raw_listings) :
      raw_listings[i].page = pre.progress.current_page
        => HasRecord(raw_listings[i].kecamatan)

\* The listings of the page being crawled that were stored before the run.
StoredBefore ==
  {i \in 1..c_raw0 : raw_listings[i].page = c_progress.current_page}

\* C6: when the crawler runs again for a page, every title stored for that
\* page before the run began is in the run's dedup set and is not inserted
\* again by the run.
C6_CrawlIdempotent ==
  pc = "crawl_loop" =>
    /\ \A i \in StoredBefore : raw_listings[i].judul_iklan \in c_existing
    /\ \A i \in StoredBefore : \A j \in (c_raw0 + 1)..Len(raw_listings) :
         raw_listings[i].judul_iklan # raw_listings[j].judul_iklan

\* C7: no two documents of raw_listings share a title.
C7_TitleUnique ==
  \A i \in 1..Len(raw_listings) : \A j \in 1..Len(raw_listings) :
    i # j => raw_listings[i].judul_iklan # raw_listings[j].judul_iklan

\* C8: when the fetcher's loop reaches a kecamatan that has a facilities
\* document, it sends no request for it and leaves the collection as it is.
C8_EnrichmentSkip ==
  [][\A k \in Kecamatans :
       (pc = "enrich_loop" /\ k \in e_todo /\ k \notin e_todo' /\ HasRecord(k))
         => (api_requests'[k] = api_requests[k] /\ facilities' = facilities)]_vars

\* The loop has passed a kecamatan that has a document, without a request.
C8_Witness ==
  /\ pc = "enrich_loop"
  /\ \E k \in e_kecs \ e_todo : HasRecord(k) /\ api_requests[k] = 0

\* The batches the cleaner run read: the raw listings of its page and the
\* facilities of their kecamatans.
PageBatch == SelectSeq(raw_listings, LAMBDA d : d.page = pre.progress.current_page)

FacilityBatch ==
  SelectSeq(facilities,
            LAMBDA d : \E i \in 1..Len(PageBatch) : PageBatch[i].kecamatan = d.kecamatan)

\* C9: a batch that lacks a required column makes the cleaner fail, and no
\* cleaned record of that batch is written.
C9_SchemaEnforcement ==
  CleanerEnded =>
    /\ (PageBatch # << >> /\ MissingColumns(PageBatch, ListingColumns) # {})
         => (~last.ok /\ cleaned_listings = pre.cleaned_listings)
    /\ (FacilityBatch # << >> /\ MissingColumns(FacilityBatch, FacilityColumns) # {})
         => (~last.ok /\ cleaned_facilities = pre.cleaned_facilities)

\* The cleaner ran on two listings that both lack the same column.
C9_Witness ==
  /\ CleanerEnded
  /\ Len(PageBatch) = 2
  /\ MissingColumns(PageBatch, ListingColumns) # {}
  /\ ~last.ok

\* C10: clean_price and clean_numeric never raise; None, NaN, "" and "abc"
\* give None, and clean_numeric gives the int 1200000 for "1,200,000".
C10_CoercionTotal ==
  cv_out # Pending =>
    /\ cv_out.raised = "none"
    /\ cv_in \in {None, NaN, StrVal(<< >>), StrVal(Sample_abc)} => cv_out.value = None
    /\ (cv_mode = "int" /\ cv_in = StrVal(Sample_1_200_000))
         => cv_out.value = IntVal(1200000)

\* clean_numeric was applied to "1,200,000".
C10_Witness ==
  /\ cv_out # Pending
  /\ cv_mode = "int"
  /\ cv_in = StrVal(Sample_1_200_000)
  /\ cv_out.value = IntVal(1200000)

\* C11: clean_price cleans a price given as a digit string with thousands
\* separators ("1,200,000") to the integer with the separators stripped
\* (1200000), not to the absent value.
C11_PriceSeparatorsStripped ==
  (cv_out # Pending /\ cv_mode = "price" /\ cv_in = StrVal(Sample_1_200_000))
    => cv_out.value = IntVal(1200000)

\* ------------------------------------------------------------------------
\* One run of the fetcher over the kecamatans of page 1, request by request
\* ------------------------------------------------------------------------
\* The facilities collection holds nothing, or the record of one kecamatan.
FetchStores ==
  {<< >>} \cup {<<FacilityDoc(k, [c \in Categories |-> 0])>> : k \in Kecamatans}

FetchInit ==
  /\ progress = DefaultProgress
  /\ raw_listings = <<RawDoc(1, Title("A", 1), "A", ProvinceOrder[1], 1),
                      RawDoc(2, Title("B", 1), "B", ProvinceOrder[1], 1)>>
  /\ facilities \in FetchStores
  /\ cleaned_listings = << >>
  /\ cleaned_facilities = << >>
  /\ site = [x \in Provinces |-> << >>]
  /\ faults = 0
  /\ pc = "fetch_next"
  /\ CrawlerIdle
  /\ c_raw0 = 0
  /\ e_kecs = get_current_kecamatans(progress, "ok")
  /\ e_todo = e_kecs
  /\ api_requests = NoRequests
  /\ crawled = {}
  /\ last = Ended("crawl", TRUE, TRUE)
  /\ pre = NoSnapshot
  /\ CoerceIdle
  /\ FetchIdle

FetchStep ==
  \/ FetchNext
  \/ FetchLoop
  \/ FetchPost
  \/ FetchEnd

SpecFetch == FetchInit /\ [][FetchStep]_vars

\* C12: a request is sent only when the seconds the previous response asked
\* to stay away (Retry-After: n of a 429, 60 when the header is absent) have
\* passed since that response.
C12_RateLimitCompliance == clock.sent => clock.gap >= clock.prev_window

C12_Witness ==
  /\ clock.sent
  /\ clock.prev_window = MaxRetryAfter
  /\ clock.gap >= MaxRetryAfter
  /\ call.retry_count > 0

\* C13: every request of a run is preceded by a delay of at least the
\* per-call delay (2 seconds) since the previous request, whatever came
\* before it: a first attempt, a retry, the next filter or the next region.
C13_MinimumSpacing == clock.sent => clock.gap >= per_call_delay

C13_Witness ==
  /\ clock.sent
  /\ clock.gap = per_call_delay
  /\ \E k \in Kecamatans : handled[k].result = "failed"
  /\ call.oks > 0

\* C14: get_facilities_count returns None for a kecamatan only if one single
\* filter expression failed max_retries times.
C14_RetryBudgetPerFilter ==
  \A k \in Kecamatans :
    handled[k].result = "failed" => handled[k].most >= max_retries

\* C15: a facility record is written by the run only for a kecamatan whose
\* every filter expression was answered with 200; a kecamatan whose retry
\* budget was exhausted has no record, and the run goes on to the remaining
\* kecamatans: it ends early only on a storage exception.
C15_NoPartialFacilityRecord ==
  /\ \A k \in Kecamatans :
       /\ handled[k].result = "saved" => handled[k].oks = NumFilters
       /\ handled[k].result \in {"failed", "unsaved"} => ~HasRecord(k)
       /\ call.kecamatan = k => ~HasRecord(k)
  /\ pc = "fetch_done" =>
       IF last.ok THEN \A k \in e_kecs : handled[k].result # "none"
       ELSE faults > 0

C15_Witness ==
  /\ pc = "fetch_post"
  /\ call.oks > 0
  /\ \E k \in Kecamatans : handled[k].result = "failed" /\ handled[k].oks > 0
  /\ facilities = << >>

\* The cards of the visited index page whose title the run does not hold as
\* existing.
Candidates == SelectSeq(visit.cards, LAMBDA t : t \notin visit.known)

Distinct(seq) == \A i, j \in 1..Len(seq) : i # j => seq[i] # seq[j]

\* C16: for an index page with distinct titles, as many detail fetches are
\* attempted as the page has candidates whose title is not in the dedup set,
\* none for a known title, and at most that many records are stored.
C16_DedupFiltering ==
  (visit.index = "ok" /\ Distinct(visit.cards)) =>
    /\ Len(visit.fetched) = Len(Candidates)
    /\ \A i \in 1..Len(visit.fetched) : visit.fetched[i] \notin visit.known
    /\ Len(visit.stored) <= Len(Candidates)

\* C17: when a detail fetch of a page fails with a network error (and no
\* other call of the visit fails), the run goes on: every candidate of the
\* page is fetched, and exactly the records of the fetches that succeeded
\* are stored.
C17_NetworkErrorAbsorbed ==
  LET ok == {i \in 1..Len(visit.outs) : visit.outs[i] = "ok"}
  IN  (/\ \E i \in 1..Len(visit.outs) : visit.outs[i] = "neterr"
       /\ \A i \in 1..Len(visit.outs) : visit.outs[i] # "raise"
       /\ visit.store # "error")
        => /\ pc = "crawl_loop"
           /\ Len(visit.fetched) = Len(Candidates)
           /\ Len(visit.stored) = Cardinality(ok)
           /\ \A j \in 1..Len(visit.stored) :
                \E i \in ok : visit.fetched[i] = visit.stored[j]
           /\ \A j \in 1..Len(visit.stored) :
                raw_listings[Len(raw_listings) - Len(visit.stored) + j].judul_iklan
                  = visit.stored[j]

C17_Witness ==
  /\ Len(visit.outs) = 2
  /\ visit.outs[1] = "neterr"
  /\ visit.outs[2] = "ok"
  /\ visit.stored = <<visit.fetched[2]>>

\* C18: a detail page whose extraction fails for a reason other than the
\* network does not end the run: the remaining candidates of the page are
\* fetched and the loop goes on to the remaining provinces.
C18_ExtractionFailureAbsorbed ==
  (\E i \in 1..Len(visit.outs) : visit.outs[i] = "raise") =>
    /\ pc = "crawl_loop"
    /\ Len(visit.fetched) = Len(Candidates)

\* ------------------------------------------------------------------------
\* The pipeline under its schedule: the DAG is started every 30 minutes
\* (housing_data_pipeline.py line 17), so a script that can run does run.
\* ------------------------------------------------------------------------
\* The cleaner's turn: a step from pc = "clean" to "crawl_start".  CleanerRun
\* is enabled whenever pc = "clean", and every such step of Next is one of
\* CleanerRun.
CleanerDue == pc = "clean" /\ pc' = "crawl_start"

\* A step of the crawler or of the fetcher.
Scheduled ==
  \/ CrawlerStart
  \/ CrawlerProvince
  \/ CrawlerEnd
  \/ EnrichStart
  \/ EnrichKecamatan
  \/ EnrichEnd

SpecLive == Init /\ [][Next]_vars /\ WF_vars(Scheduled) /\ WF_pc(CleanerDue)

StoredTitles == {raw_listings[i].judul_iklan : i \in 1..Len(raw_listings)}

\* No province's index page of page p shows a title that is not stored.
NothingNew(p) ==
  /\ progress.exists
  /\ progress.current_page = p
  /\ \A x \in Provinces : \A i \in 1..Len(IndexPage(x, p)) :
       IndexPage(x, p)[i] \in StoredTitles

\* C19: when no province yields a new candidate at the current page (every
\* title is known, or the index pages are empty), repeated runs of the
\* pipeline eventually advance current_page past that page.
C19_ZeroCandidatesAdvance ==
  \A p \in 1..MaxPage : NothingNew(p) ~> (progress.current_page > p)

\* ------------------------------------------------------------------------
\* Loading the progress document.  Rumah123Scraper.load_progress is the step
\* of CrawlerStart that reaches the loop; DataCleaner.load_progress is the
\* first call of CleanerRun, and a cleaner run that meets no storage failure
\* (faults unchanged) on a missing document has done nothing else.
\* ------------------------------------------------------------------------
ScraperLoaded == pc = "crawl_start" /\ pc' = "crawl_loop"

CleanerLoadedNone == pc = "clean" /\ pc' = "crawl_start" /\ ~progress.exists
                     /\ faults' = faults

\* C20: when no progress record exists, loading progress creates and persists
\* the record with current_page = 1 and every known province at page 1; when
\* a record exists, loading it writes nothing.
C20_FirstRunInitialisation ==
  [][/\ ScraperLoaded =>
          progress' = IF progress.exists THEN progress ELSE DefaultProgress
     /\ CleanerLoadedNone => progress' = DefaultProgress]_vars

\* ------------------------------------------------------------------------
\* The cleaned collections against the raw ones.
\* ------------------------------------------------------------------------
\* The documents of `coll` made from the raw document of _id `id`.
CleanedOf(coll, id) == {i \in 1..Len(coll) : coll[i].id = id}

\* C21: after any sequence of cleaner runs, every raw listing has at most one
\* record in cleaned_listings and every raw facility record at most one in
\* cleaned_facilities.
C21_OneCleanedPerRaw ==
  /\ \A i \in 1..Len(raw_listings) :
       Cardinality(CleanedOf(cleaned_listings, raw_listings[i].id)) <= 1
  /\ \A i \in 1..Len(facilities) :
       Cardinality(CleanedOf(cleaned_facilities, facilities[i].id)) <= 1

\* A cleaner run on the second page failed, and it was a retry: the run before
\* it had already written listings of that page, and cleaned_facilities holds
\* the record of a kecamatan the second page shares with the first.
C21_Witness ==
  /\ CleanerEnded
  /\ ~last.ok
  /\ last.started
  /\ progress.current_page = 2
  /\ \E i \in 1..Len(pre.cleaned_listings) : pre.cleaned_listings[i].page = 2
  /\ \E i \in 1..Len(raw_listings), j \in 1..Len(cleaned_facilities) :
       /\ raw_listings[i].page = 2
       /\ cleaned_facilities[j].kecamatan = raw_listings[i].kecamatan

\* ------------------------------------------------------------------------
\* The crawler's progress write.
\* ------------------------------------------------------------------------
\* The raw_listings documents of a title, province and page.
StoredAs(title, province, page) ==
  {i \in 1..Len(raw_listings) :
     /\ raw_listings[i].judul_iklan = title
     /\ raw_listings[i].province = province
     /\ raw_listings[i].page = page}

\* C22: the crawler calls update_progress for a province only after that
\* province's newly fetched listings were inserted successfully; when the
\* insert fails or there is nothing to insert it is not called.
C22_StoreBeforeProgress ==
  /\ visit.progress_write # "none" =>
       /\ visit.store = "ok"
       /\ visit.stored # << >>
       /\ \A i \in 1..Len(visit.stored) :
            StoredAs(visit.stored[i], visit.province, visit.page) # {}
  /\ (visit.province # "none" /\ visit.store # "ok") => visit.progress_write = "none"

\* update_progress was called in a visit.
C22_Witness == visit.progress_write = "ok" /\ visit.stored # << >>

\* ------------------------------------------------------------------------
\* The fetcher's run as a running process: get_facilities_count does not
\* stop between two statements (every sleep is finite and session.post has
\* timeout=60, line 109), so its steps are taken as long as they are enabled.
\* ------------------------------------------------------------------------
InCall ==
  \/ FetchLoop
  \/ FetchPost

SpecFetchLive == FetchInit /\ [][FetchStep]_vars /\ WF_vars(InCall)

\* C23: whatever the API answers (429s, other statuses or exceptions without
\* end), get_facilities_count returns, and it sends at most as many requests
\* for one kecamatan as there are filter expressions plus max_retries.
C23_BoundedAttempts ==
  /\ [](\A k \in Kecamatans : api_requests[k] <= NumFilters + max_retries)
  /\ \A k \in Kecamatans : (call.kecamatan = k) ~> (call.kecamatan # k)

\* A call that gave up: every answer after eight 200s was a failure.
C23_Witness ==
  \E k \in Kecamatans :
    /\ handled[k].result = "failed"
    /\ api_requests[k] = NumFilters + max_retries - 1

\* ------------------------------------------------------------------------
\* The DAG's task chain (housing_data_pipeline.py lines 23-65).  Each task
\* calls subprocess.run([...]) without check=True and ignores the return
\* code, so the task succeeds whatever the script's exit status was.
\* ------------------------------------------------------------------------
\* The enrichment script is started: its run reaches the loop, or it ends at
\* once and the DAG goes on to the cleaner.
EnrichmentStarts == pc = "enrich_start" /\ pc' \in {"enrich_loop", "clean"}

\* The crawler script of this invocation ended with an exception (exit
\* status 1): load_progress re-raised, or a detail extraction raised.
CrawlAborted == last.run = "crawl" /\ ~last.ok

\* C24: the stages of an invocation run in the order crawl, enrich, clean,
\* and the stages after the crawl run only if the crawl completed without a
\* fatal error: a crawler that aborts keeps them from running.
C24_StageGating ==
  [][/\ EnrichmentStarts => ~CrawlAborted
     /\ (pc = "crawl_loop" /\ pc' # pc) => pc' = "enrich_start"
     /\ (pc \in {"enrich_start", "enrich_loop"} /\ pc' # pc) =>
          pc' \in {"enrich_loop", "clean"}
     /\ (pc = "clean" /\ pc' # pc) => pc' = "crawl_start"]_vars

\* ------------------------------------------------------------------------
\* The cursors of the progress document.
\* ------------------------------------------------------------------------
LockStep ==
  progress.exists => \A x \in Provinces : progress.provinces[x] = progress.current_page

\* A cleaner run that returned True.
CleanerSucceeds == pc = "clean" /\ pc' = "crawl_start" /\ last'.ok

\* C25: from the default progress record and under sequential crawler,
\* enrichment and cleaner runs, every province's cursor equals current_page
\* in every reachable state, and a successful cleaner run raises current_page
\* and every province's cursor by exactly one.
C25_LockStepCursors ==
  /\ []LockStep
  /\ [][CleanerSucceeds =>
          /\ progress'.current_page = progress.current_page + 1
          /\ \A x \in Provinces :
               progress'.provinces[x] = progress.provinces[x] + 1]_vars

\* The cleaner advanced past page 1 although a province had no listing of it.
C25_Witness ==
  /\ CleanerEnded
  /\ last.ok
  /\ progress.current_page = 2
  /\ \E x \in Provinces :
       \A i \in 1..Len(raw_listings) :
         ~(raw_listings[i].province = x /\ raw_listings[i].page = 1)

\* ------------------------------------------------------------------------
\* Two invocations of the DAG that overlap.  The DAG is scheduled every 30
\* minutes with no max_active_runs (housing_data_pipeline.py lines 13-20), so
\* the next invocation's crawler can run while the earlier invocation has
\* not reached its cleaner yet.  The earlier invocation crawled page 1 for
\* the provinces of `done` (the index request of the others failed) and
\* ended its enrichment; its cleaner run, one load and one update_one of the
\* progress document, falls between two steps of the later crawler.
\* ------------------------------------------------------------------------
RECURSIVE StoredPages(_, _, _)
StoredPages(order, done, docs) ==
  IF order = << >> THEN docs
  ELSE LET x == Head(order)
           houses == IndexPage(x, 1)
           new == IF x \in done
                    THEN HouseDetails(houses, [i \in 1..Len(houses) |-> "ok"], x, 1,
                                      Len(docs) + 1)
                    ELSE << >>
       IN  StoredPages(Tail(order), done, docs \o new)

OverlapInit ==
  /\ progress = DefaultProgress
  /\ site \in Sites
  /\ \E done \in SUBSET Provinces :
       raw_listings = StoredPages(ProvinceOrder, done, << >>)
  /\ facilities = << >>
  /\ cleaned_listings = << >>
  /\ cleaned_facilities = << >>
  /\ faults = 0
  /\ pc = "crawl_start"
  /\ CrawlerIdle
  /\ c_raw0 = 0
  /\ e_kecs = {}
  /\ e_todo = {}
  /\ api_requests = NoRequests
  /\ crawled = {}
  /\ last = Ended("enrich", TRUE, TRUE)
  /\ pre = NoSnapshot
  /\ CoerceIdle
  /\ FetchIdle

\* DataCleaner.run of the earlier invocation, while the later invocation's
\* crawler is before or inside its loop.
OverlapCleanerRun ==
  /\ pc \in {"crawl_start", "crawl_loop"}
  /\ last.run = "enrich"
  /\ progress.exists
  /\ LET out == process_current_page(progress, "none")
     IN  /\ last' = Ended("clean", out.ok, out.started)
         /\ cleaned_listings' = out.cleaned_listings
         /\ cleaned_facilities' = out.cleaned_facilities
         /\ progress' = out.progress
  /\ UNCHANGED <<raw_listings, facilities, site, faults, pc, crawlerVars,
                 enrichVars, crawled, pre, coerceVars, fetchVars>>

OverlapNext ==
  \/ CrawlerStart
  \/ CrawlerProvince
  \/ CrawlerEnd
  \/ OverlapCleanerRun

SpecOverlap == OverlapInit /\ [][OverlapNext]_vars

\* C26: when a crawler run that loaded progress at page p is interleaved with
\* a cleaner run that advances progress to p+1, no step leaves current_page
\* or a province cursor lower than it was.
C26_NoRegressionUnderOverlap ==
  [][\A x \in Provinces :
       /\ ~(progress'.current_page < progress.current_page)
       /\ ~(progress'.provinces[x] < progress.provinces[x])]_vars

\* ------------------------------------------------------------------------
\* The crawler's effect on the progress document (sequential runs).
\* ------------------------------------------------------------------------
\* A step of the crawler script.
CrawlerStep == pc \in {"crawl_start", "crawl_loop"}

\* C27: in a crawler run not overlapped by another writer, every
\* update_progress call writes a cursor and a current_page equal to the values
\* loaded at the start of the run, and no step of the run changes a value of
\* an existing progress record.
C27_CrawlerLeavesProgress ==
  /\ [][(CrawlerStep /\ progress.exists) => progress' = progress]_vars
  /\ [](visit.progress_write = "ok" =>
          /\ c_progress.current_page = visit.page
          /\ c_progress.provinces[visit.province] = visit.page
          /\ progress = c_progress)

\* update_progress was called and succeeded on the second page.
C27_Witness ==
  /\ pc = "crawl_loop"
  /\ visit.progress_write = "ok"
  /\ visit.page = 2

====
